---- MODULE Spec2Model ----
(***************************************************************************)
(* The bridge between the ZoKrates IR and the bellman Groth16 backend      *)
(* (zokrates_core/src/proof_system/bn128/utils/bellman.rs): synthesis of a *)
(* Prog into a bellman constraint system, setup, prove with its            *)
(* self-verification, and public_inputs_values.                            *)
(***************************************************************************)
EXTENDS Integers, Sequences, FiniteSets, TLC

\* ------------------------------------------------------------------------
\* Bounds of the model
\* ------------------------------------------------------------------------
MaxArgs == 2       \* arguments of main
MaxReturns == 2    \* declared return wires
MaxStmts == 2      \* statements of main
FieldMod == 47     \* stand-in for the order of the scalar field

\* ------------------------------------------------------------------------
\* FlatVariable: a signed id; 0 is ~one, positive ids are private
\* variables, negative ids are public (output) variables.
\* ------------------------------------------------------------------------
one == 0
new(id) == 1 + id
public(id) == (0 - id) - 1
is_output(k) == k < 0

\* Fr::from(FieldPrime): the canonical embedding of a field element.
FrFrom(v) == v % FieldMod

\* Witness::empty()
EmptyWitness == [k \in {} |-> 0]

\* BTreeMap::remove on the witness map
WitnessRemove(w, k) == [x \in (DOMAIN w) \ {k} |-> w[x]]

\* Witness::return_values: the values of the output variables the witness
\* holds, by public index 0, 1, ...: for a program whose returns are
\* public(0), public(1), ... this is the declaration order of `returns`.
return_values(w) ==
    LET n == Cardinality({k \in DOMAIN w : is_output(k)})
    IN  [i \in 1..n |-> w[public(i - 1)]]

\* ------------------------------------------------------------------------
\* The backend constraint system (bellman ConstraintSystem<Bn256>)
\* ------------------------------------------------------------------------
\* CS::one(): the built-in constant handle, input slot 0
CSOne == <<"Input", 0>>

\* A fresh constraint system: KeypairAssembly ("keygen", value suppliers are
\* never called) or ProvingAssignment ("proving", they are called).
NewCS(mode) ==
    [mode |-> mode,
     num_inputs |-> 1,
     num_aux |-> 0,
     input_assignment |-> <<1>>,
     aux_assignment |-> <<>>,
     constraints |-> <<>>,
     allocs |-> <<>>]

\* The value slot of an allocation whose value supplier was not called.
NoValue == 0 - 1

\* Variant: symbols starts empty, ~one is left to its first reference.
NewSynthesis_without_one(mode, w) ==
    [cs |-> NewCS(mode),
     symbols |-> [k \in {} |-> CSOne],
     witness |-> IF w = <<>> THEN EmptyWitness ELSE w[1],
     wire |-> CSOne,
     removes |-> <<>>,
     panic |-> FALSE]

\* The locals of one Prog::synthesize call: the constraint system cs, the
\* map symbols, the witness being consumed, the wire returned by the last
\* allocation, whether an unwrap() panicked; removes logs the calls of
\* witness.0.remove.
\* let mut symbols = BTreeMap::new();
\* let mut witness = witness.unwrap_or(Witness::empty());
\* assert!(symbols.insert(FlatVariable::one(), CS::one()).is_none());
NewSynthesis(mode, w) ==
    [cs |-> NewCS(mode),
     symbols |-> (one :> CSOne),
     witness |-> IF w = <<>> THEN EmptyWitness ELSE w[1],
     wire |-> CSOne,
     removes |-> <<>>,
     panic |-> FALSE]

\* cs.alloc(ns, f) / cs.alloc_input(ns, f) with the value supplier
\*   f = || Ok(witness.0.remove(&k).ok_or(AssignmentMissing)?.into())
\* followed by .unwrap(). A keygen backend takes the next slot without
\* calling f; a proving backend calls f, pushes the value and takes the
\* slot, or returns the error of f, on which unwrap() panics.
AllocateIn(evaluated, st, k, private, ns) ==
    LET present == k \in DOMAIN st.witness
        value == IF evaluated /\ present THEN FrFrom(st.witness[k]) ELSE NoValue
        handle == IF private THEN <<"Aux", st.cs.num_aux>>
                             ELSE <<"Input", st.cs.num_inputs>>
        entry == [var |-> k, private |-> private, ns |-> ns, value |-> value]
    IN  IF evaluated /\ ~present
        THEN [st EXCEPT !.removes = Append(@, k), !.panic = TRUE]
        ELSE [st EXCEPT
                !.cs.num_aux = IF private THEN @ + 1 ELSE @,
                !.cs.num_inputs = IF private THEN @ ELSE @ + 1,
                !.cs.aux_assignment =
                    IF private /\ evaluated THEN Append(@, value) ELSE @,
                !.cs.input_assignment =
                    IF ~private /\ evaluated THEN Append(@, value) ELSE @,
                !.cs.allocs = Append(@, entry),
                !.witness = IF evaluated THEN WitnessRemove(@, k) ELSE @,
                !.removes = IF evaluated THEN Append(@, k) ELSE @,
                !.wire = handle]

\* Variant: the value supplier is called by every backend.
Allocate_always_supplying(st, k, private, ns) ==
    AllocateIn(TRUE, st, k, private, ns)

\* Variant: a variable the witness lacks is given the value 0.
Allocate_defaulting(st, k, private, ns) ==
    AllocateIn(st.cs.mode = "proving",
               [st EXCEPT !.witness = IF k \in DOMAIN @ THEN @ ELSE (k :> 0) @@ @],
               k, private, ns)

\* Variant: a variable the witness holds no value for is allocated as a
\* public input.
Allocate_by_presence(st, k, private, ns) ==
    AllocateIn(st.cs.mode = "proving", st, k,
               private /\ k \in DOMAIN st.witness, ns)

Allocate(st, k, private, ns) ==
    AllocateIn(st.cs.mode = "proving", st, k, private, ns)

\* Variant: no lookup in symbols, every reference allocates.
Resolve_uncached(st, k) ==
    IF k = one
    THEN [st EXCEPT !.wire = st.symbols[k]]
    ELSE LET r == Allocate(st, k, ~is_output(k), <<"VAR", k>>)
         IN  IF r.panic THEN r
             ELSE [r EXCEPT !.symbols = (k :> r.wire) @@ @]

\* symbols.entry(k).or_insert_with(|| match k.is_output() { true =>
\* cs.alloc_input(..), false => cs.alloc(..) }.unwrap()).clone()
Resolve(st, k) ==
    IF k \in DOMAIN st.symbols
    THEN [st EXCEPT !.wire = st.symbols[k]]
    ELSE LET r == Allocate(st, k, ~is_output(k), <<"VAR", k>>)
         IN  IF r.panic THEN r
             ELSE [r EXCEPT !.symbols = (k :> r.wire) @@ @]

\* bellman_combination: map every (k, v) of l to (Fr::from(v), handle of k)
\* and fold with LinearCombination::zero() and +, term after term.
RECURSIVE bellman_combination_from(_, _, _, _)
bellman_combination_from(l, i, st, acc) ==
    IF i > Len(l) \/ st.panic
    THEN [st |-> st, lc |-> acc]
    ELSE LET r == Resolve(st, l[i][1])
         IN  IF r.panic
             THEN [st |-> r, lc |-> acc]
             ELSE bellman_combination_from(
                      l, i + 1, r, Append(acc, <<FrFrom(l[i][2]), r.wire>>))

\* Variant: the fold is seeded with the first term and loses it.
bellman_combination_losing_first(l, st) == bellman_combination_from(l, 2, st, <<>>)

bellman_combination(l, st) == bellman_combination_from(l, 1, st, <<>>)

\* Variant: the arguments are left to their first use in a statement.
synthesize_argument_lazy(st, prog, index) == st

\* Variant: the argument is allocated but not bound in symbols.
synthesize_argument_unbound(st, prog, index) ==
    Allocate(st, prog.arguments[index + 1], prog.private[index + 1],
             <<IF prog.private[index + 1] THEN "PRIVATE_INPUT" ELSE "PUBLIC_INPUT",
               index>>)

\* Variant: the category of an argument is taken from the tag of its
\* variable, not from its flag.
synthesize_argument_by_tag(st, prog, index) ==
    LET var == prog.arguments[index + 1]
        r == Allocate(st, var, ~is_output(var), <<"VAR", var>>)
    IN  IF r.panic THEN r
        ELSE [r EXCEPT !.symbols = (var :> r.wire) @@ @]

\* One element of the iterator given to symbols.extend: allocate
\* arguments[index] in the category of private[index] and bind it.
synthesize_argument(st, prog, index) ==
    LET var == prog.arguments[index + 1]
        private == prog.private[index + 1]
        r == Allocate(st, var, private,
                      <<IF private THEN "PRIVATE_INPUT" ELSE "PUBLIC_INPUT", index>>)
    IN  IF r.panic THEN r
        ELSE [r EXCEPT !.symbols = (var :> r.wire) @@ @]

\* Variant: the target of a constraint is combined before its two factors.
synthesize_constraint_target_first(st, statement) ==
    LET c == bellman_combination(statement.lin, st)
        a == bellman_combination(statement.left, c.st)
        b == bellman_combination(statement.right, a.st)
    IN  IF b.st.panic THEN b.st
        ELSE [b.st EXCEPT !.cs.constraints =
                  Append(@, [a |-> a.lc, b |-> b.lc, c |-> c.lc])]

\* The arm Statement::Constraint(quad, lin) of the match: three
\* combinations, then cs.enforce.
synthesize_constraint(st, statement) ==
    LET a == bellman_combination(statement.left, st)
        b == bellman_combination(statement.right, a.st)
        c == bellman_combination(statement.lin, b.st)
    IN  IF c.st.panic THEN c.st
        ELSE [c.st EXCEPT !.cs.constraints =
                  Append(@, [a |-> a.lc, b |-> b.lc, c |-> c.lc])]

\* Variant: every kind of statement is taken for a constraint.
synthesize_statement_any_kind(st, statement) == synthesize_constraint(st, statement)

\* One iteration of  for statement in main.statements
synthesize_statement(st, statement) ==
    IF statement.kind = "Constraint"
    THEN synthesize_constraint(st, statement)
    ELSE st

\* Prog::synthesize as a whole: the arguments from the index-th on, then the
\* statements from the stmt-th on; an unwrap() that panics ends it.
RECURSIVE synthesize_from(_, _, _, _)
synthesize_from(st, prog, index, stmt) ==
    IF st.panic THEN st
    ELSE IF index < Len(prog.arguments)
    THEN synthesize_from(synthesize_argument(st, prog, index), prog, index + 1, stmt)
    ELSE IF stmt < Len(prog.statements)
    THEN synthesize_from(synthesize_statement(st, prog.statements[stmt + 1]),
                         prog, index, stmt + 1)
    ELSE st

synthesize(prog, mode, w) == synthesize_from(NewSynthesis(mode, w), prog, 0, 0)

\* ------------------------------------------------------------------------
\* Computation: prove, public_inputs_values, setup
\* ------------------------------------------------------------------------
\* Variant: the filter on the private flag is missing.
public_arguments_unfiltered(arguments, private, i) ==
    SubSeq(arguments, i, Len(arguments))

\* Variant: the public arguments are taken in the order of their raw index.
public_arguments_sorted(arguments, private, i) ==
    SortSeq(SelectSeq(SubSeq(arguments, i, Len(arguments)),
                      LAMBDA a : \E j \in i..Len(arguments) :
                                    arguments[j] = a /\ ~private[j]),
            LAMBDA x, y : x < y)

\* arguments.iter().zip(private).filter(|(_, p)| !p).map(|(a, _)| a)
RECURSIVE public_arguments(_, _, _)
public_arguments(arguments, private, i) ==
    IF i > Len(arguments) \/ i > Len(private)
    THEN <<>>
    ELSE (IF ~private[i] THEN <<arguments[i]>> ELSE <<>>)
             \o public_arguments(arguments, private, i + 1)

\* The output variables in the order the statements first name them as
\* their target.
RECURSIVE OutputsInUseOrder(_, _)
OutputsInUseOrder(ss, i) ==
    IF i > Len(ss) THEN <<>>
    ELSE LET rest == OutputsInUseOrder(ss, i + 1)
             here == IF ss[i].kind = "Constraint" /\ is_output(ss[i].lin[1][1])
                     THEN <<ss[i].lin[1][1]>> ELSE <<>>
         IN  here \o SelectSeq(rest, LAMBDA k : here = <<>> \/ k # here[1])

\* Variant: the return values are taken in the order the statements name
\* the output variables.
public_inputs_values_in_use_order(prog, witness_opt) ==
    IF witness_opt = <<>>
    THEN [panic |-> TRUE, values |-> <<>>]
    ELSE LET w == witness_opt[1]
             pub == public_arguments(prog.arguments, prog.private, 1)
             out == OutputsInUseOrder(prog.statements, 1)
         IN  [panic |-> FALSE,
              values |-> [i \in 1..Len(pub) |-> FrFrom(w[pub[i]])]
                             \o [i \in 1..Len(out) |-> FrFrom(w[out[i]])]]

\* Computation::public_inputs_values: the public arguments' values read
\* from a clone of self.witness, chained with return_values(), each mapped
\* through Fr::from. unwrap() panics on a missing witness or value.
public_inputs_values(prog, witness_opt) ==
    IF witness_opt = <<>>
    THEN [panic |-> TRUE, values |-> <<>>]
    ELSE LET w == witness_opt[1]
             pub == public_arguments(prog.arguments, prog.private, 1)
             ret == return_values(w)
         IN  IF \E i \in 1..Len(pub) : pub[i] \notin DOMAIN w
             THEN [panic |-> TRUE, values |-> <<>>]
             ELSE [panic |-> FALSE,
                   values |-> [i \in 1..Len(pub) |-> FrFrom(w[pub[i]])]
                                  \o [i \in 1..Len(ret) |-> FrFrom(ret[i])]]

\* The value the proving backend holds for a handle.
Assigned(cs, handle) ==
    IF handle[1] = "Input"
    THEN cs.input_assignment[handle[2] + 1]
    ELSE cs.aux_assignment[handle[2] + 1]

\* The value of a backend linear combination under the assignment.
RECURSIVE eval_lc(_, _, _)
eval_lc(lc, cs, i) ==
    IF i > Len(lc) THEN 0
    ELSE (lc[i][1] * Assigned(cs, lc[i][2]) + eval_lc(lc, cs, i + 1)) % FieldMod

\* Every enforced constraint a * b = c holds under the assignment.
is_satisfied(cs) ==
    \A j \in 1..Len(cs.constraints) :
        (eval_lc(cs.constraints[j].a, cs, 1) * eval_lc(cs.constraints[j].b, cs, 1))
            % FieldMod
        = eval_lc(cs.constraints[j].c, cs, 1)

\* generate_random_parameters(self, rng).unwrap(): the key of the circuit
\* the keygen synthesis described; vk.ic has one point per input slot.
generate_random_parameters(cs) ==
    [ic_len |-> cs.num_inputs, num_aux |-> cs.num_aux, constraints |-> cs.constraints]

\* create_random_proof(self.clone(), params, rng).unwrap(): a proof of the
\* assignment the proving synthesis supplied.
create_random_proof(cs, parameters) ==
    [input_assignment |-> cs.input_assignment,
     valid |-> /\ is_satisfied(cs)
               /\ parameters.constraints = cs.constraints
               /\ parameters.ic_len = cs.num_inputs
               /\ parameters.num_aux = cs.num_aux]

\* verify_proof(&pvk, &proof, &public_inputs): an error when the number of
\* inputs does not fit the key, else whether the proof is a valid proof for
\* exactly these public inputs.
verify_proof(parameters, prf, inputs) ==
    IF Len(inputs) + 1 # parameters.ic_len
    THEN "Err"
    ELSE IF prf.valid /\ inputs = Tail(prf.input_assignment)
         THEN "true"
         ELSE "false"

\* ------------------------------------------------------------------------
\* Texts: a String is the sequence of its characters
\* ------------------------------------------------------------------------
\* The hexadecimal digits of a field representation; a representation has
\* a fixed number of them.
ReprDigits == 2

HexDigit(d) ==
    <<"0", "1", "2", "3", "4", "5", "6", "7", "8", "9",
      "a", "b", "c", "d", "e", "f">>[d + 1]

\* Display of FqRepr / FrRepr: 0x and the digits, most significant first.
fmt_repr(v) ==
    <<"0", "x">>
        \o [i \in 1..ReprDigits |-> HexDigit((v \div (16 ^ (ReprDigits - i))) % 16)]

\* Display of usize: decimal.
RECURSIVE fmt_usize(_)
fmt_usize(n) ==
    IF n < 10 THEN <<HexDigit(n)>>
    ELSE fmt_usize(n \div 10) \o <<HexDigit(n % 10)>>

\* Display of Fq: Fq(0x..)
fmt_Fq(v) == <<"F", "q", "(">> \o fmt_repr(v) \o <<")">>

\* Display of Fr: Fr(0x..)
fmt_Fr(v) == <<"F", "r", "(">> \o fmt_repr(v) \o <<")">>

\* Display of Fq2: Fq2(c0 + c1 * u)
fmt_Fq2(c) ==
    <<"F", "q", "2", "(">> \o fmt_Fq(c[1]) \o <<" ", "+", " ">>
        \o fmt_Fq(c[2]) \o <<" ", "*", " ", "u", ")">>

\* Display of an affine point of G1 other than the point at infinity:
\* G1(x=.., y=..)
fmt_G1(pt) ==
    <<"G", "1", "(", "x", "=">> \o fmt_Fq(pt[1])
        \o <<",", " ", "y", "=">> \o fmt_Fq(pt[2]) \o <<")">>

\* Display of an affine point of G2 other than the point at infinity:
\* G2(x=.., y=..)
fmt_G2(pt) ==
    <<"G", "2", "(", "x", "=">> \o fmt_Fq2(pt[1])
        \o <<",", " ", "y", "=">> \o fmt_Fq2(pt[2]) \o <<")">>

\* Whether pat occurs in s at position i.
starts_with(s, i, pat) ==
    /\ i + Len(pat) - 1 <= Len(s)
    /\ SubSeq(s, i, i + Len(pat) - 1) = pat

\* str::replace: every non-overlapping occurrence of from, found from left
\* to right, is replaced by to.
RECURSIVE replace_from(_, _, _, _)
replace_from(s, i, from, to) ==
    LET matches == {j \in i..Len(s) : starts_with(s, j, from)}
    IN  IF matches = {}
        THEN SubSeq(s, i, Len(s))
        ELSE LET next == CHOOSE j \in matches : \A k \in matches : j <= k
             IN  SubSeq(s, i, next - 1) \o to
                     \o replace_from(s, next + Len(from), from, to)

replace(s, from, to) == replace_from(s, 1, from, to)

\* [String]::join
RECURSIVE join(_, _, _)
join(parts, sep, i) ==
    IF i > Len(parts) THEN <<>>
    ELSE IF i = Len(parts) THEN parts[i]
         ELSE parts[i] \o sep \o join(parts, sep, i + 1)

\* The format! of serialize_vk, before the replacements.
format_vk(vk) ==
    <<"v", "k", ".", "a", "l", "p", "h", "a", " ", "=", " ">> \o fmt_G1(vk.alpha_g1)
        \o <<"\n", "v", "k", ".", "b", "e", "t", "a", " ", "=", " ">> \o fmt_G2(vk.beta_g2)
        \o <<"\n", "v", "k", ".", "g", "a", "m", "m", "a", " ", "=", " ">> \o fmt_G2(vk.gamma_g2)
        \o <<"\n", "v", "k", ".", "d", "e", "l", "t", "a", " ", "=", " ">> \o fmt_G2(vk.delta_g2)
        \o <<"\n", "v", "k", ".", "g", "a", "m", "m", "a", "A", "B", "C",
             ".", "l", "e", "n", "(", ")", " ", "=", " ">>
        \o fmt_usize(Len(vk.ic)) \o <<"\n">>
        \o join([i \in 1..Len(vk.ic) |->
                    <<"v", "k", ".", "g", "a", "m", "m", "a", "A", "B", "C",
                      "[">>
                        \o fmt_usize(i - 1) \o <<"]", " ", "=", " ">> \o fmt_G1(vk.ic[i])],
                <<"\n">>, 1)

\* Variant: the last replacement is missing.
serialize_vk_without_last_replace(vk) ==
    LET r1 == replace(format_vk(vk),
                      <<"G", "2", "(", "x", "=", "F", "q", "2", "(", "F",
                        "q", "(">>, <<"[", "[">>)
        r2 == replace(r1, <<")", ",", " ", "y", "=", "F", "q", "(">>, <<",", " ">>)
        r3 == replace(r2, <<"G", "1", "(", "x", "=", "F", "q", "(">>, <<"[">>)
        r4 == replace(r3, <<")", " ", "+", " ", "F", "q", "(">>, <<",", " ">>)
        r5 == replace(r4, <<")", ")">>, <<"]">>)
    IN  replace(r5, <<")", " ", "*", " ", "u", ")", ",", " ", "y", "=", "F",
                      "q", "2", "(", "F", "q", "(">>,
                <<"]", ",", " ", "[">>)

\* serialize_vk: the format! and its chain of replace.
serialize_vk(vk) ==
    LET r1 == replace(format_vk(vk),
                      <<"G", "2", "(", "x", "=", "F", "q", "2", "(", "F",
                        "q", "(">>, <<"[", "[">>)
        r2 == replace(r1, <<")", ",", " ", "y", "=", "F", "q", "(">>, <<",", " ">>)
        r3 == replace(r2, <<"G", "1", "(", "x", "=", "F", "q", "(">>, <<"[">>)
        r4 == replace(r3, <<")", " ", "+", " ", "F", "q", "(">>, <<",", " ">>)
        r5 == replace(r4, <<")", ")">>, <<"]">>)
        r6 == replace(r5, <<")", " ", "*", " ", "u", ")", ",", " ", "y", "=",
                            "F", "q", "2", "(", "F", "q", "(">>,
                      <<"]", ",", " ", "[">>)
    IN  replace(r6, <<")", " ", "*", " ", "u", "]">>, <<"]", "]">>)

\* The format! of serialize_proof, before the replacements.
format_proof(p, inputs) ==
    <<"{", "\n", " ", " ", " ", " ", "\"", "p", "r", "o", "o", "f", "\"",
      ":", " ", "{", "\n", " ", " ", " ", " ", " ", " ", " ", " ", "\"", "a",
      "\"", ":", " ">>
        \o fmt_G1(p.a)
        \o <<",", "\n", " ", " ", " ", " ", " ", " ", " ", " ", "\"", "b",
             "\"", ":", " ">>
        \o fmt_G2(p.b)
        \o <<",", "\n", " ", " ", " ", " ", " ", " ", " ", " ", "\"", "c",
             "\"", ":", " ">>
        \o fmt_G1(p.c)
        \o <<"\n", " ", " ", " ", " ", "}", ",", "\n", " ", " ", " ", " ",
             "\"", "i", "n", "p", "u", "t", "s", "\"", ":", " ", "[">>
        \o join([i \in 1..Len(inputs) |->
                    <<"\"">> \o fmt_Fr(inputs[i]) \o <<"\"">>],
                <<",", " ">>, 1)
        \o <<"]", "\n", "}">>

\* serialize_proof: the format! and its chain of replace.
serialize_proof(p, inputs) ==
    LET r1 == replace(format_proof(p, inputs),
                      <<"G", "2", "(", "x", "=", "F", "q", "2", "(", "F",
                        "q", "(">>, <<"[", "[", "\"">>)
        r2 == replace(r1, <<")", ",", " ", "y", "=", "F", "q", "(">>, <<"\"", ",", " ", "\"">>)
        r3 == replace(r2, <<"G", "1", "(", "x", "=", "F", "q", "(">>, <<"[", "\"">>)
        r4 == replace(r3, <<")", " ", "+", " ", "F", "q", "(">>, <<"\"", ",", " ", "\"">>)
        r5 == replace(r4, <<")", " ", "*", " ", "u", ")", ",", " ", "y", "=",
                            "F", "q", "2", "(", "F", "q", "(">>,
                      <<"\"", "]", ",", " ", "[", "\"">>)
        r6 == replace(r5, <<")", " ", "*", " ", "u", "]">>, <<"\"", "]", "]">>)
        r7 == replace(r6, <<")", " ", "*", " ", "u", ")", ")">>, <<"\"", "]", "]">>)
        r8 == replace(r7, <<")", ")">>, <<"\"", "]">>)
        r9 == replace(r8, <<"F", "r", "(">>, <<>>)
    IN  replace(r9, <<")">>, <<>>)

\* ------------------------------------------------------------------------
\* The programs and witnesses handed to the bridge
\* ------------------------------------------------------------------------
PrivateVars == {new(0), new(1)}
OutputVars == {public(i) : i \in 0..(MaxReturns - 1)}

Term(k) == <<k, 1>>
Single(V) == {<<Term(k)>> : k \in V}
Pairs(V1, V2) == {<<Term(t[1]), Term(t[2])>> : t \in {u \in V1 \X V2 : u[1] # u[2]}}

\* Statement::Constraint(quad, lin) with quad = lc.into() (one * lc), lc a
\* private variable or a sum of two terms, in either term order, and lin an
\* output variable.
Constraints ==
    [kind : {"Constraint"},
     left : Single({one}),
     right : Single(PrivateVars) \cup Pairs({one} \cup PrivateVars, PrivateVars),
     lin : Single(OutputVars)]

\* A statement of another kind: a directive computing new(1) from new(0);
\* right holds its inputs and lin its outputs.
Directives ==
    [kind : {"Directive"},
     left : {<<>>},
     right : Single({new(0)}),
     lin : Single({new(1)})]

Statements == Constraints \cup Directives

SeqsUpTo(S, n) == UNION {[1..m -> S] : m \in 0..n}

Range(f) == {f[i] : i \in DOMAIN f}
LCVars(l) == {l[i][1] : i \in 1..Len(l)}
StatementVars(s) == LCVars(s.left) \cup LCVars(s.right) \cup LCVars(s.lin)
StatementsVars(ss) == UNION {StatementVars(ss[i]) : i \in 1..Len(ss)}
ConstraintVars(ss) ==
    UNION {StatementVars(ss[i]) : i \in {j \in 1..Len(ss) : ss[j].kind = "Constraint"}}
ProgVars(p) ==
    {one} \cup Range(p.arguments) \cup Range(p.returns) \cup StatementsVars(p.statements)

\* Prog { main: Function { arguments, returns, statements }, private }:
\* the arguments are distinct private-range variables paired with their
\* flags, the returns are public(0), public(1), ..., each return wire is
\* defined by a constraint and no other output variable occurs in a
\* statement.
Programs ==
    {p \in [arguments : SeqsUpTo(PrivateVars, MaxArgs),
            private : SeqsUpTo(BOOLEAN, MaxArgs),
            returns : {[i \in 1..n |-> public(i - 1)] : n \in 0..MaxReturns},
            statements : SeqsUpTo(Statements, MaxStmts)] :
        /\ Len(p.private) = Len(p.arguments)
        /\ \A i, j \in 1..Len(p.arguments) : i # j => p.arguments[i] # p.arguments[j]
        /\ \A k \in StatementsVars(p.statements) : is_output(k) => k \in Range(p.returns)
        /\ Range(p.returns) \subseteq ConstraintVars(p.statements)}

\* The value of an IR linear combination under a witness.
RECURSIVE EvalLinComb(_, _, _)
EvalLinComb(l, w, i) ==
    IF i > Len(l) THEN 0
    ELSE (l[i][2] * w[l[i][1]] + EvalLinComb(l, w, i + 1)) % FieldMod

\* The witness satisfies every constraint statement of the program.
Satisfies(p, w) ==
    \A i \in 1..Len(p.statements) :
        p.statements[i].kind = "Constraint" =>
            (EvalLinComb(p.statements[i].left, w, 1)
                * EvalLinComb(p.statements[i].right, w, 1)) % FieldMod
            = EvalLinComb(p.statements[i].lin, w, 1)

\* The witnesses of a program: the front end hands over a solved witness, a
\* value for every variable of the program, ~one being 1, that satisfies it.
Values == {0, 1}
Witnesses(p) ==
    {w \in [ProgVars(p) -> Values] : w[one] = 1 /\ Satisfies(p, w)}

\* Option<Witness>: <<>> is None, <<w>> is Some(w).
None == <<>>
Some(x) == <<x>>

\* ------------------------------------------------------------------------
\* The programs and witnesses the types of Prog and Witness allow
\* ------------------------------------------------------------------------
\* The variables declared as arguments: a private variable or an output
\* variable.
ArgumentVars == {new(0), public(0)}

\* Statement::Constraint(quad, lin) with quad = (left, right), left the
\* constant or a private variable, and lin an output variable.
WideConstraints ==
    [kind : {"Constraint"},
     left : Single({one, new(1)}),
     right : Single({new(0)}),
     lin : Single(OutputVars)]

WideStatements == WideConstraints \cup Directives

\* "public variables must be ordered from 0": with an output variable the
\* set holds those of the lower indices.
OrderedFromZero(V) ==
    \A k \in V : (is_output(k) /\ k # public(0)) => (k + 1) \in V

\* Prog { main: Function { arguments, returns, statements }, private }: the
\* arguments are distinct variables of either tag, paired with their flags;
\* a declared return wire may occur in no statement and a statement may
\* name an output variable that is no declared return wire.
WidePrograms ==
    {p \in [arguments : SeqsUpTo(ArgumentVars, MaxArgs),
            private : SeqsUpTo(BOOLEAN, MaxArgs),
            returns : {[i \in 1..n |-> public(i - 1)] : n \in 0..MaxReturns},
            statements : SeqsUpTo(WideStatements, MaxStmts)] :
        /\ Len(p.private) = Len(p.arguments)
        /\ \A i, j \in 1..Len(p.arguments) : i # j => p.arguments[i] # p.arguments[j]
        /\ OrderedFromZero(ProgVars(p))}

\* The variables a witness of the program may lack: any but ~one, and of
\* the output variables the one of the highest index.
Droppable(p) ==
    {k \in ProgVars(p) \ {one} : is_output(k) => (k - 1) \notin ProgVars(p)}

\* Witness(BTreeMap<FlatVariable, T>): every variable of the program is 1
\* and at most one variable has no entry, or every variable has an entry
\* and new(0) is 0; such a witness need not satisfy the program.
WideWitnesses(p) ==
    {[k \in ProgVars(p) \ M |-> 1] : M \in {{}} \cup {{k} : k \in Droppable(p)}}
        \cup {[k \in ProgVars(p) |-> IF k = new(0) THEN 0 ELSE 1]}

\* ------------------------------------------------------------------------
\* State
\* ------------------------------------------------------------------------
VARIABLES
    program,    \* Computation.program
    witness,    \* Computation.witness
    pc,         \* "idle", "synthesize", "verify", "proved", "panic"
    call,       \* the call in progress or last made
    st,         \* the locals of the synthesis in progress or last run
    index,      \* arguments already allocated by symbols.extend
    stmt,       \* statements already processed by the for loop
    params,     \* Option: the Parameters returned by setup
    proof,      \* Option: the Proof created by prove
    result,     \* Option: the vector returned by the last public_inputs_values
    reordered,  \* Option: the vector public_inputs_values returned for a
                \* reordering of the statements of program
    prev,       \* Option: what prove did on the program this one is a
                \* renaming of
    output      \* Option: the artifact last serialized and its text

vars ==
    <<program, witness, pc, call, st, index, stmt, params, proof, result,
      reordered, prev, output>>

\* tests::prove::unordered_variables: its program and the witness its
\* execution on the inputs 3 and 4 yields.
unordered_variables ==
    [program |->
        [arguments |-> <<new(42), new(51)>>,
         private |-> <<TRUE, FALSE>>,
         returns |-> <<public(0), public(1)>>,
         statements |->
            <<[kind |-> "Constraint", left |-> <<Term(one)>>,
               right |-> <<Term(new(42)), Term(new(51))>>,
               lin |-> <<Term(public(0))>>],
              [kind |-> "Constraint", left |-> <<Term(one)>>,
               right |-> <<Term(one), Term(new(42))>>,
               lin |-> <<Term(public(1))>>]>>],
     witness |-> Some((one :> 1) @@ (new(42) :> 3) @@ (new(51) :> 4)
                          @@ (public(0) :> 7) @@ (public(1) :> 4))]

\* Computation::without_witness(program), Computation::with_witness(program,
\* witness), or the computation of the test.
Init ==
    /\ \/ /\ program \in Programs
          /\ witness \in {None} \cup {Some(w) : w \in Witnesses(program)}
       \/ /\ program = unordered_variables.program
          /\ witness = unordered_variables.witness
    /\ pc = "idle"
    /\ call = "none"
    /\ st = NewSynthesis("none", None)
    /\ index = 0
    /\ stmt = 0
    /\ params = None
    /\ proof = None
    /\ result = None
    /\ reordered = None
    /\ prev = None
    /\ output = None

\* Computation::setup: generate_random_parameters(self, rng) synthesizes
\* self on a keygen constraint system.
Setup ==
    /\ pc = "idle"
    /\ params = None
    /\ pc' = "synthesize"
    /\ call' = "setup"
    /\ st' = NewSynthesis("keygen", witness)
    /\ index' = 0
    /\ stmt' = 0
    /\ result' = None
    /\ reordered' = None
    /\ UNCHANGED <<program, witness, params, proof, prev, output>>

\* Computation::prove, first line: create_random_proof(self.clone(), ..)
\* synthesizes a clone of self on a proving constraint system.
Prove ==
    /\ pc = "idle"
    /\ params # None
    /\ proof = None
    /\ pc' = "synthesize"
    /\ call' = "prove"
    /\ st' = NewSynthesis("proving", witness)
    /\ index' = 0
    /\ stmt' = 0
    /\ result' = None
    /\ reordered' = None
    /\ UNCHANGED <<program, witness, params, proof, prev, output>>

\* Prog::synthesize, symbols.extend: the next argument.
SynthesizeArgument ==
    /\ pc = "synthesize"
    /\ index < Len(program.arguments)
    /\ st' = synthesize_argument(st, program, index)
    /\ index' = index + 1
    /\ pc' = IF st'.panic THEN "panic" ELSE pc
    /\ UNCHANGED <<program, witness, call, stmt, params, proof, result, reordered, prev, output>>

\* Prog::synthesize, the for loop: the next statement.
SynthesizeStatement ==
    /\ pc = "synthesize"
    /\ index = Len(program.arguments)
    /\ stmt < Len(program.statements)
    /\ st' = synthesize_statement(st, program.statements[stmt + 1])
    /\ stmt' = stmt + 1
    /\ pc' = IF st'.panic THEN "panic" ELSE pc
    /\ UNCHANGED <<program, witness, call, index, params, proof, result, reordered, prev, output>>

\* Prog::synthesize returns Ok(()) to generate_random_parameters, and setup
\* returns the parameters.
SetupReturn ==
    /\ pc = "synthesize"
    /\ call = "setup"
    /\ index = Len(program.arguments)
    /\ stmt = Len(program.statements)
    /\ params' = Some(generate_random_parameters(st.cs))
    /\ pc' = "idle"
    /\ UNCHANGED <<program, witness, call, st, index, stmt, proof, result, reordered, prev, output>>

\* Variant: the synthesis of prove consumes the witness of the computation
\* itself, not that of a clone.
witness_after_proof_consumed(own, synthesis) == Some(synthesis.witness)

\* self.witness after create_random_proof(self.clone(), ..): the synthesis
\* took the witness of the clone, self keeps its own.
witness_after_proof(own, synthesis) == own

\* Prog::synthesize returns Ok(()) to create_random_proof, which returns the
\* proof.
ProveCreate ==
    /\ pc = "synthesize"
    /\ call = "prove"
    /\ index = Len(program.arguments)
    /\ stmt = Len(program.statements)
    /\ proof' = Some(create_random_proof(st.cs, params[1]))
    /\ witness' = witness_after_proof(witness, st)
    /\ pc' = "verify"
    /\ UNCHANGED <<program, call, st, index, stmt, params, result, reordered, prev, output>>

\* Variant: the result of verify_proof is not asserted.
ProveVerify_unasserted ==
    /\ pc = "verify"
    /\ LET public_inputs == public_inputs_values(program, witness)
       IN  result' = IF public_inputs.panic THEN None ELSE Some(public_inputs.values)
    /\ pc' = "proved"
    /\ UNCHANGED <<program, witness, call, st, index, stmt, params, proof, reordered, prev, output>>

\* Computation::prove, the rest: public_inputs_values, then
\* assert!(verify_proof(&pvk, &proof, &public_inputs).unwrap()).
ProveVerify ==
    /\ pc = "verify"
    /\ LET public_inputs == public_inputs_values(program, witness)
           verified == IF public_inputs.panic THEN "Err"
                       ELSE verify_proof(params[1], proof[1], public_inputs.values)
       IN  /\ result' = IF public_inputs.panic THEN None ELSE Some(public_inputs.values)
           /\ pc' = IF verified = "true" THEN "proved" ELSE "panic"
    /\ UNCHANGED <<program, witness, call, st, index, stmt, params, proof, reordered, prev, output>>

\* Computation::public_inputs_values called on its own.
PublicInputsValues ==
    /\ pc = "idle"
    /\ result = None
    /\ LET public_inputs == public_inputs_values(program, witness)
       IN  /\ result' = IF public_inputs.panic THEN None ELSE Some(public_inputs.values)
           /\ pc' = IF public_inputs.panic THEN "panic" ELSE "idle"
    /\ call' = "public_inputs_values"
    /\ UNCHANGED <<program, witness, st, index, stmt, params, proof, reordered, prev, output>>

\* Computation::public_inputs_values called on the computation that differs
\* from this one by the exchange of two statements.
PublicInputsValuesReordered ==
    /\ pc = "idle"
    /\ result # None
    /\ reordered = None
    /\ \E i, j \in 1..Len(program.statements) :
          /\ i < j
          /\ program.statements[i] # program.statements[j]
          /\ LET other == [program EXCEPT
                              !.statements[i] = program.statements[j],
                              !.statements[j] = program.statements[i]]
             IN  reordered' = Some(public_inputs_values(other, witness).values)
    /\ UNCHANGED <<program, witness, pc, call, st, index, stmt, params, proof,
                   result, prev, output>>

\* The renamings of the raw indices of the private variables: to the
\* indices 51 and 42 of the test, which also reverses their order.
Renamings ==
    {(new(0) :> new(51)) @@ (new(1) :> new(42))}

RenameVar(rho, k) == IF k \in DOMAIN rho THEN rho[k] ELSE k
RenameLC(rho, l) == [i \in 1..Len(l) |-> <<RenameVar(rho, l[i][1]), l[i][2]>>]
RenameStatement(rho, s) ==
    [kind |-> s.kind,
     left |-> RenameLC(rho, s.left),
     right |-> RenameLC(rho, s.right),
     lin |-> RenameLC(rho, s.lin)]
RenameProgram(rho, p) ==
    [arguments |-> [i \in 1..Len(p.arguments) |-> RenameVar(rho, p.arguments[i])],
     private |-> p.private,
     returns |-> [i \in 1..Len(p.returns) |-> RenameVar(rho, p.returns[i])],
     statements |->
        [i \in 1..Len(p.statements) |-> RenameStatement(rho, p.statements[i])]]
RenameWitness(rho, w) ==
    [k \in {RenameVar(rho, x) : x \in DOMAIN w} |->
        w[CHOOSE x \in DOMAIN w : RenameVar(rho, x) = k]]

\* The categories of the allocations, in call order.
Categories(allocs) == [i \in 1..Len(allocs) |-> allocs[i].private]

\* After a prove, the same program and witness with the raw indices of the
\* private variables renamed, as a new computation; prev keeps what prove
\* did before the renaming.
Rename ==
    /\ pc \in {"proved", "panic"}
    /\ call = "prove"
    /\ witness # None
    /\ prev = None
    /\ \E rho \in Renamings :
          /\ RenameProgram(rho, program) # program
          /\ program' = RenameProgram(rho, program)
          /\ witness' = Some(RenameWitness(rho, witness[1]))
    /\ prev' = Some([categories |-> Categories(st.cs.allocs), outcome |-> pc])
    /\ pc' = "idle"
    /\ call' = "none"
    /\ st' = NewSynthesis("none", None)
    /\ index' = 0
    /\ stmt' = 0
    /\ params' = None
    /\ proof' = None
    /\ result' = None
    /\ reordered' = None
    /\ UNCHANGED output

Next ==
    \/ PublicInputsValuesReordered
    \/ Setup
    \/ Prove
    \/ SynthesizeArgument
    \/ SynthesizeStatement
    \/ SetupReturn
    \/ ProveCreate
    \/ ProveVerify
    \/ PublicInputsValues

Spec == Init /\ [][Next]_vars

\* The specification over the programs and witnesses the types allow.
InitWide ==
    /\ program \in WidePrograms
    /\ witness \in {None} \cup {Some(w) : w \in WideWitnesses(program)}
    /\ pc = "idle"
    /\ call = "none"
    /\ st = NewSynthesis("none", None)
    /\ index = 0
    /\ stmt = 0
    /\ params = None
    /\ proof = None
    /\ result = None
    /\ reordered = None
    /\ prev = None
    /\ output = None

SpecWide == InitWide /\ [][Next]_vars

\* The specification for bellman_combination: the syntheses of the programs
\* of few statements supply the maps, modes and witnesses it is applied to.
CombinationStmts == 1

InitCombination == InitWide /\ Len(program.statements) <= CombinationStmts

NextCombination ==
    \/ Setup
    \/ SetupReturn
    \/ Prove
    \/ SynthesizeArgument
    \/ SynthesizeStatement
    \/ ProveCreate
    \/ ProveVerify

SpecCombination == InitCombination /\ [][NextCombination]_vars

\* The specification with the renaming of a computation after its prove:
\* the computations made by Computation::with_witness.
InitRename == Init /\ witness # None

NextRename == Next \/ Rename

SpecRename == InitRename /\ [][NextRename]_vars

\* tests::serialize::proof::serialize: its program and the witness its
\* execution on the input 42 yields.
serialize_test ==
    [program |->
        [arguments |-> <<new(0)>>,
         private |-> <<FALSE>>,
         returns |-> <<public(0)>>,
         statements |->
            <<[kind |-> "Constraint", left |-> <<Term(one)>>,
               right |-> <<Term(new(0))>>,
               lin |-> <<Term(public(0))>>]>>],
     witness |-> Some((one :> 1) @@ (new(0) :> 42) @@ (public(0) :> 42))]

\* tests::prove::no_arguments: its program and witness.
no_arguments ==
    [program |->
        [arguments |-> <<>>,
         private |-> <<>>,
         returns |-> <<public(0)>>,
         statements |->
            <<[kind |-> "Constraint", left |-> <<Term(one)>>,
               right |-> <<Term(one)>>,
               lin |-> <<Term(public(0))>>]>>],
     witness |-> Some((one :> 1) @@ (public(0) :> 1))]

\* Affine points of G1 (x, y) and of G2 ((x.c0, x.c1), (y.c0, y.c1)), by
\* their coordinates; the backend draws them with fresh randomness.
G1Points == {<<1, 2>>, <<42, 171>>}
G2Points == {<<<<1, 2>>, <<3, 4>>>>, <<<<42, 171>>, <<0, 255>>>>}

\* The computations of the tests, to be set up, proved and serialized.
InitSerialize ==
    /\ \E c \in {serialize_test, no_arguments, unordered_variables} :
          /\ program = c.program
          /\ witness = c.witness
    /\ pc = "idle"
    /\ call = "none"
    /\ st = NewSynthesis("none", None)
    /\ index = 0
    /\ stmt = 0
    /\ params = None
    /\ proof = None
    /\ result = None
    /\ reordered = None
    /\ prev = None
    /\ output = None

\* serialize_vk(params.vk) on the parameters setup returned: a key has one
\* point of vk.ic per input slot.
SerializeVk ==
    /\ pc = "idle"
    /\ params # None
    /\ st.cs.mode = "keygen"
    /\ output = None
    /\ \E alpha \in G1Points, beta \in G2Points, gamma \in G2Points,
          delta \in G2Points, ic \in [1..params[1].ic_len -> G1Points] :
          LET vk == [alpha_g1 |-> alpha, beta_g2 |-> beta, gamma_g2 |-> gamma,
                     delta_g2 |-> delta, ic |-> ic]
          IN  output' = Some([call |-> "serialize_vk", vk |-> vk,
                              text |-> serialize_vk(vk)])
    /\ UNCHANGED <<program, witness, pc, call, st, index, stmt, params, proof,
                   result, reordered, prev>>

\* serialize_proof(&proof, &public_inputs_values) on the proof prove
\* returned.
SerializeProof ==
    /\ pc = "proved"
    /\ result # None
    /\ output # None => output[1].call = "serialize_vk"
    /\ \E a \in G1Points, b \in G2Points, c \in G1Points :
          LET p == [a |-> a, b |-> b, c |-> c]
          IN  output' = Some([call |-> "serialize_proof", p |-> p,
                              inputs |-> result[1],
                              text |-> serialize_proof(p, result[1])])
    /\ UNCHANGED <<program, witness, pc, call, st, index, stmt, params, proof,
                   result, reordered, prev>>

NextSerialize ==
    \/ Setup
    \/ Prove
    \/ SynthesizeArgument
    \/ SynthesizeStatement
    \/ SetupReturn
    \/ ProveCreate
    \/ ProveVerify
    \/ SerializeVk
    \/ SerializeProof

SpecSerialize == InitSerialize /\ [][NextSerialize]_vars

\* ------------------------------------------------------------------------
\* Properties
\* ------------------------------------------------------------------------
\* A synthesis ran to its Ok(()).
Synthesized == st.cs.mode # "none" /\ pc # "synthesize" /\ ~st.panic

\* The variables of the allocations, in call order.
AllocVars(allocs) == [i \in 1..Len(allocs) |-> allocs[i].var]

IsInputAlloc(e) == ~e.private

\* The variables given to alloc_input, in call order.
InputAllocVars(allocs) == AllocVars(SelectSeq(allocs, IsInputAlloc))

NoDuplicates(s) == \A i, j \in 1..Len(s) : i # j => s[i] # s[j]

\* The Constraint statements among the first n statements, in order.
IsConstraint(s) == s.kind = "Constraint"
ConstraintsOf(ss, n) == SelectSeq(SubSeq(ss, 1, n), IsConstraint)

\* C1: for every program and every witness satisfying it, prove on the
\* parameters of setup completes without aborting: its self-verification
\* succeeds.
C1_ProveSelfVerifies ==
    (call = "prove" /\ witness # None /\ Satisfies(program, witness[1]))
        => pc # "panic"

\* C2: after synthesize finishes, the alloc_input calls, in call order, are
\* the public arguments in declaration order followed by the declared return
\* wires in the order of returns.
C2_PublicSlotOrder ==
    Synthesized =>
        InputAllocVars(st.cs.allocs)
            = public_arguments(program.arguments, program.private, 1)
                  \o program.returns

\* The first allocations are those of all the arguments, in declaration
\* order, each in the category of its private flag.
ArgumentsAllocated ==
    /\ Len(st.cs.allocs) >= Len(program.arguments)
    /\ \A i \in 1..Len(program.arguments) :
          /\ st.cs.allocs[i].var = program.arguments[i]
          /\ st.cs.allocs[i].private = program.private[i]
          /\ st.cs.allocs[i].ns[1] # "VAR"
          /\ st.cs.allocs[i].ns[2] = i - 1

\* C3: in every synthesis every argument is allocated, in declaration order
\* and in the category of its flag, before the first statement is processed;
\* no allocation made for a statement precedes the allocation of an argument.
C3_ArgumentsFirst ==
    /\ stmt > 0 => ArgumentsAllocated
    /\ \A j \in 1..Len(st.cs.allocs) :
          st.cs.allocs[j].ns[1] = "VAR" =>
              (j > Len(program.arguments) /\ ArgumentsAllocated)

\* A statement caused an allocation although an argument is referenced by
\* no statement.
C3_Witness ==
    /\ Synthesized
    /\ C3_ArgumentsFirst
    /\ \E j \in 1..Len(st.cs.allocs) : st.cs.allocs[j].ns[1] = "VAR"
    /\ \E i \in 1..Len(program.arguments) :
          program.arguments[i] \notin StatementsVars(program.statements)

\* The handle the backend returned for the j-th allocation.
HandleOf(allocs, j) ==
    IF allocs[j].private
    THEN <<"Aux", Cardinality({i \in 1..(j - 1) : allocs[i].private})>>
    ELSE <<"Input", 1 + Cardinality({i \in 1..(j - 1) : ~allocs[i].private})>>

\* An IR linear combination with every variable replaced by its handle.
ResolvedLC(l) == [i \in 1..Len(l) |-> <<l[i][2] % FieldMod, st.symbols[l[i][1]]>>]

C6_SetupNeedsNoWitness ==
    st.cs.mode = "keygen" =>
        /\ ~st.panic
        /\ st.removes = <<>>
        /\ st.witness = (IF witness = None THEN EmptyWitness ELSE witness[1])
        /\ (pc # "synthesize") =>
              /\ params # None
              /\ Range(program.arguments) \cup ConstraintVars(program.statements)
                     \subseteq DOMAIN st.symbols
              /\ Len(st.cs.constraints)
                     = Len(ConstraintsOf(program.statements, Len(program.statements)))

\* setup returned for a computation without witness after allocating
\* arguments and other variables and emitting constraints.
C6_Witness ==
    /\ witness = None
    /\ call = "setup"
    /\ pc = "idle"
    /\ params # None
    /\ Len(program.arguments) > 0
    /\ Len(st.cs.allocs) > Len(program.arguments)
    /\ Len(st.cs.constraints) > 0

\* C7: a synthesis emits one constraint per Constraint statement, in program
\* order, built from the left, right and target of that statement; another
\* kind of statement emits no constraint, allocates no variable and removes
\* nothing from the witness.
C7_OneConstraintPerStatement ==
    (st.cs.mode # "none" /\ ~st.panic) =>
        LET done == ConstraintsOf(program.statements, stmt)
            used == Range(program.arguments)
                        \cup ConstraintVars(SubSeq(program.statements, 1, stmt))
        IN  /\ Len(st.cs.constraints) = Len(done)
            /\ \A c \in 1..Len(done) :
                  st.cs.constraints[c] =
                      [a |-> ResolvedLC(done[c].left),
                       b |-> ResolvedLC(done[c].right),
                       c |-> ResolvedLC(done[c].lin)]
            /\ Range(AllocVars(st.cs.allocs)) \subseteq used
            /\ Range(st.removes) \subseteq used

\* A synthesis finished on a program with a directive and a constraint, and
\* the output of the directive was not allocated.
C7_Witness ==
    /\ Synthesized
    /\ \E i \in 1..Len(program.statements) : program.statements[i].kind = "Directive"
    /\ Len(st.cs.constraints) = 1
    /\ new(1) \notin DOMAIN st.symbols

\* The vector the claim describes: the witness values of the arguments with
\* a false flag, in declaration order, then those of the declared returns.
ExpectedPublicInputs(p, w) ==
    LET positions == SelectSeq([i \in 1..Len(p.arguments) |-> i],
                               LAMBDA i : ~p.private[i])
    IN  [n \in 1..Len(positions) |-> w[p.arguments[positions[n]]]]
            \o [n \in 1..Len(p.returns) |-> w[p.returns[n]]]

\* C8: public_inputs_values returns the witness values of the public
\* arguments in declaration order followed by those of the declared return
\* wires in declaration order, and leaves the witness of the computation
\* unchanged.
C8_PublicInputsValues ==
    [][(result' # None /\ result' # result) =>
          /\ witness' = witness
          /\ result'[1] = ExpectedPublicInputs(program, witness[1])]_vars

\* public_inputs_values returned for a computation with a private and a
\* public argument and two return wires.
C8_Witness ==
    /\ call = "public_inputs_values"
    /\ result # None
    /\ Len(result[1]) = 3
    /\ program.private = <<TRUE, FALSE>>
    /\ Len(program.returns) = 2

\* C9: for two programs that differ by a permutation of their statements,
\* and the same witness, public_inputs_values returns the same vector.
C9_ReorderInvariant ==
    (result # None /\ reordered # None) => reordered = result

\* public_inputs_values returned for a program and for its reordering, the
\* two statements defining different return wires of different value.
C9_Witness ==
    /\ result # None
    /\ reordered # None
    /\ Len(program.returns) = 2
    /\ Len(program.statements) = 2
    /\ program.statements[1].lin # program.statements[2].lin
    /\ witness[1][public(0)] # witness[1][public(1)]

ArgumentPositions(p, k) == {i \in 1..Len(p.arguments) : p.arguments[i] = k}

RECURSIVE Traversal(_, _)
Traversal(ss, i) ==
    IF i > Len(ss) THEN <<>>
    ELSE (IF ss[i].kind = "Constraint"
          THEN [j \in 1..Len(ss[i].left) |-> ss[i].left[j][1]]
                   \o [j \in 1..Len(ss[i].right) |-> ss[i].right[j][1]]
                   \o [j \in 1..Len(ss[i].lin) |-> ss[i].lin[j][1]]
          ELSE <<>>) \o Traversal(ss, i + 1)

\* The first occurrences in s of the variables not in seen, in order.
RECURSIVE FirstOccurrences(_, _)
FirstOccurrences(s, seen) ==
    IF s = <<>> THEN <<>>
    ELSE IF Head(s) \in seen
         THEN FirstOccurrences(Tail(s), seen)
         ELSE <<Head(s)>> \o FirstOccurrences(Tail(s), seen \cup {Head(s)})

\* The arguments, then the other variables of the constraints at their
\* first occurrence.
AllocationOrder(p) ==
    p.arguments
        \o FirstOccurrences(Traversal(p.statements, 1), {one} \cup Range(p.arguments))

\* C12: in a proving synthesis with a witness, the allocation of a variable
\* the witness has no entry for fails and ends the synthesis there: the
\* allocations made are those before it, no constraint of that or a later
\* statement is emitted, and prove returns no proof; an allocation that
\* succeeded was of a variable the witness held.
C12_MissingAssignmentAborts ==
    (st.cs.mode = "proving" /\ witness # None) =>
        LET order == AllocationOrder(program)
            missing == {i \in 1..Len(order) : order[i] \notin DOMAIN witness[1]}
        IN  /\ Range(AllocVars(st.cs.allocs)) \subseteq DOMAIN witness[1]
            /\ pc \in {"verify", "proved"} => missing = {}
            /\ st.panic =>
                  /\ missing # {}
                  /\ \A i \in missing : i > Len(st.cs.allocs)
                  /\ (Len(st.cs.allocs) + 1) \in missing
                  /\ AllocVars(st.cs.allocs) = SubSeq(order, 1, Len(st.cs.allocs))
                  /\ st.removes = SubSeq(order, 1, Len(st.cs.allocs) + 1)
                  /\ Len(st.cs.constraints)
                        = Len(ConstraintsOf(program.statements,
                                            IF stmt > 0 THEN stmt - 1 ELSE 0))
                  /\ pc = "panic"
                  /\ proof = None

\* A proving synthesis failed at the first of two statements, after the
\* allocation of an argument; the second statement is a constraint naming a
\* variable not yet allocated.
C12_Witness ==
    /\ st.cs.mode = "proving"
    /\ witness # None
    /\ st.panic
    /\ Len(st.cs.allocs) > 0
    /\ stmt = 1
    /\ Len(program.statements) = 2
    /\ program.statements[2].kind = "Constraint"
    /\ \E k \in StatementVars(program.statements[2]) : k \notin DOMAIN st.symbols

\* The self-verification of prove is positive: public_inputs_values
\* returns, and verify_proof returns Ok(true) for the proof and that vector.
SelfVerifies ==
    /\ proof # None
    /\ ~public_inputs_values(program, witness).panic
    /\ verify_proof(params[1], proof[1],
                    public_inputs_values(program, witness).values) = "true"

\* C13: prove returns a proof only after verify_proof returned Ok(true) for
\* it, the verifying key of params and the vector of public_inputs_values;
\* on Ok(false), on an error of verify_proof and on a failure of the proving
\* synthesis prove aborts and returns no proof.
C13_ReturnedProofVerified ==
    call = "prove" =>
        /\ pc = "proved" =>
               /\ SelfVerifies
               /\ result = Some(public_inputs_values(program, witness).values)
               /\ Len(result[1]) + 1 = params[1].ic_len
               /\ proof[1].valid
               /\ result[1] = Tail(proof[1].input_assignment)
        /\ (pc = "panic" /\ proof # None) => ~SelfVerifies
        /\ st.panic => (pc = "panic" /\ proof = None)

\* prove returned a proof of a program with a public argument and a return
\* wire, from a witness drawn among witnesses that do not all satisfy their
\* program.
C13_Witness ==
    /\ call = "prove"
    /\ pc = "proved"
    /\ proof # None
    /\ Len(result[1]) = 2
    /\ \E i \in 1..Len(program.arguments) : ~program.private[i]
    /\ Len(program.returns) = 1

\* A number string between quotes.
Quoted(t) == <<"\"">> \o t \o <<"\"">>

\* The decimal digits of a field element, without sign or leading zeros.
Decimal(v) == fmt_usize(v)

\* The rendering [x, y] of a base-field point and [[x0, x1], [y0, y1]] of
\* an extension-field point, every coordinate rendered by Str.
PointG1(pt, Str(_)) ==
    <<"[">> \o Str(pt[1]) \o <<",", " ">> \o Str(pt[2]) \o <<"]">>
PointG2(pt, Str(_)) ==
    <<"[", "[">> \o Str(pt[1][1]) \o <<",", " ">> \o Str(pt[1][2])
        \o <<"]", ",", " ", "[">>
        \o Str(pt[2][1]) \o <<",", " ">> \o Str(pt[2][2]) \o <<"]", "]">>

QuotedRepr(v) == Quoted(fmt_repr(v))
QuotedDecimal(v) == Quoted(Decimal(v))

\* The JSON text of a proof: the points with quoted coordinates, and the
\* inputs rendered by Str, in order.
ProofText(p, inputs, Str(_)) ==
    <<"{", "\n", " ", " ", " ", " ", "\"", "p", "r", "o", "o", "f", "\"",
      ":", " ", "{", "\n", " ", " ", " ", " ", " ", " ", " ", " ", "\"", "a",
      "\"", ":", " ">>
        \o PointG1(p.a, QuotedRepr)
        \o <<",", "\n", " ", " ", " ", " ", " ", " ", " ", " ", "\"", "b",
             "\"", ":", " ">>
        \o PointG2(p.b, QuotedRepr)
        \o <<",", "\n", " ", " ", " ", " ", " ", " ", " ", " ", "\"", "c",
             "\"", ":", " ">>
        \o PointG1(p.c, QuotedRepr)
        \o <<"\n", " ", " ", " ", " ", "}", ",", "\n", " ", " ", " ", " ",
             "\"", "i", "n", "p", "u", "t", "s", "\"", ":", " ", "[">>
        \o join([i \in 1..Len(inputs) |-> Str(inputs[i])], <<",", " ">>, 1)
        \o <<"]", "\n", "}">>

\* The tokens of the generic point printer: G1, G2, Fq (and so Fq2), Fr,
\* the u of c0 + c1 * u, and the parentheses.
PrinterTokens ==
    {<<"G", "1">>, <<"G", "2">>, <<"F", "q">>, <<"F", "r">>,
      <<"*", " ", "u">>, <<"(">>, <<")">>}

NoPrinterToken(t) ==
    \A pat \in PrinterTokens : \A i \in 1..Len(t) : ~starts_with(t, i, pat)

\* The positions of a character in a text.
Occurrences(t, c) == {i \in 1..Len(t) : t[i] = c}

\* The list of inputs of a proof text: what stands between the last [ and
\* the last ].
InputsList(t) ==
    LET open == CHOOSE i \in Occurrences(t, "[") :
                    \A j \in Occurrences(t, "[") : j <= i
        close == CHOOSE i \in Occurrences(t, "]") :
                    \A j \in Occurrences(t, "]") : j <= i
    IN  SubSeq(t, open + 1, close - 1)

\* C14: the text of serialize_proof(p, inputs) is the JSON object with the
\* points a and c as [x, y] and b as [[x0, x1], [y0, y1]], every coordinate
\* a quoted string, and with one quoted decimal number per element of
\* inputs, in order; no character of the generic point printer is left; for
\* the computation of tests::serialize::proof::serialize, with the witness
\* a = 42, the list of inputs is ["42"].
C14_SerializeProofText ==
    (output # None /\ output[1].call = "serialize_proof") =>
        /\ output[1].text = ProofText(output[1].p, output[1].inputs, QuotedDecimal)
        /\ NoPrinterToken(output[1].text)
        /\ (program = serialize_test.program /\ witness = serialize_test.witness) =>
               InputsList(output[1].text) = <<"\"", "4", "2", "\"">>

\* The lines of the text of a verifying key: one per component, the count
\* of the points of vk.ic, then one per point, prefixed with its index from
\* 0; the points rendered as [x, y] and [[x0, x1], [y0, y1]].
VkLines(vk) ==
    <<<<"v", "k", ".", "a", "l", "p", "h", "a", " ", "=", " ">> \o PointG1(vk.alpha_g1, fmt_repr),
      <<"v", "k", ".", "b", "e", "t", "a", " ", "=", " ">> \o PointG2(vk.beta_g2, fmt_repr),
      <<"v", "k", ".", "g", "a", "m", "m", "a", " ", "=", " ">> \o PointG2(vk.gamma_g2, fmt_repr),
      <<"v", "k", ".", "d", "e", "l", "t", "a", " ", "=", " ">> \o PointG2(vk.delta_g2, fmt_repr),
      <<"v", "k", ".", "g", "a", "m", "m", "a", "A", "B", "C", ".", "l", "e",
        "n", "(", ")", " ", "=", " ">>
          \o Decimal(Len(vk.ic))>>
        \o [i \in 1..Len(vk.ic) |->
               <<"v", "k", ".", "g", "a", "m", "m", "a", "A", "B", "C", "[">>
                   \o Decimal(i - 1) \o <<"]", " ", "=", " ">> \o PointG1(vk.ic[i], fmt_repr)]

\* C15: the text of serialize_vk(vk) is one line for each of alpha, beta,
\* gamma and delta, a line with the count of the points of vk.ic, then that
\* many lines, one per point, prefixed with the indices 0, 1, ... in order;
\* the count is the number of input slots the synthesis allocated plus one
\* for the constant-one slot; a point of G1 reads [x, y], a point of G2
\* [[x0, x1], [y0, y1]], and no token of the generic point printer is left
\* (the only parentheses are those of len()).
C15_SerializeVkText ==
    (output # None /\ output[1].call = "serialize_vk") =>
        LET text == output[1].text
            vk == output[1].vk
        IN  /\ text = join(VkLines(vk), <<"\n">>, 1)
            /\ Cardinality(Occurrences(text, "\n")) = 4 + Len(vk.ic)
            /\ Len(vk.ic) = params[1].ic_len
            /\ st.cs.mode = "keygen" =>
                   Len(vk.ic) = Len(InputAllocVars(st.cs.allocs)) + 1
            /\ \A pat \in PrinterTokens \ {<<"(">>, <<")">>} :
                   \A i \in 1..Len(text) : ~starts_with(text, i, pat)
            /\ \A i \in Occurrences(text, "(") \cup Occurrences(text, ")") :
                   starts_with(text, i - 4, <<"l", "e", "n", "(", ")">>)
                       \/ starts_with(text, i - 3, <<"l", "e", "n", "(", ")">>)

\* The key of the program of tests::prove::unordered_variables was
\* serialized: three input slots and the constant-one slot.
C15_Witness ==
    /\ output # None
    /\ output[1].call = "serialize_vk"
    /\ st.cs.mode = "keygen"
    /\ Len(output[1].vk.ic) = 4
    /\ \E i, j \in 1..4 : output[1].vk.ic[i] # output[1].vk.ic[j]
    /\ output[1].vk.beta_g2 # output[1].vk.gamma_g2

\* C16: the synthesis of prove consumes a copy: no step of setup, prove or
\* public_inputs_values changes the witness of the computation, so
\* public_inputs_values reads it whole after the proof was made, and every
\* synthesis starts from the whole witness of the computation, never from
\* what an earlier synthesis left.
C16_WitnessCopyConsumed ==
    [][/\ witness' = witness
       /\ (st' # st /\ st'.cs.mode # "none" /\ st'.cs.allocs = <<>>
               /\ st'.removes = <<>>) =>
              st'.witness = (IF witness = None THEN EmptyWitness ELSE witness[1])
       /\ (pc' = "proved" /\ pc # "proved") =>
              result' = Some(public_inputs_values(program, witness).values)]_vars

\* prove returned after a synthesis that removed every entry but that of
\* ~one from its copy of the witness, and public_inputs_values read two
\* values.
C16_Witness ==
    /\ call = "prove"
    /\ pc = "proved"
    /\ witness # None
    /\ Len(st.removes) >= 2
    /\ DOMAIN st.witness = {one}
    /\ DOMAIN witness[1] # {one}
    /\ Len(result[1]) >= 2

\* The terms of a backend combination that stand for the terms of ~one in
\* the IR combination it was built from carry the constant handle.
OneResolved(l, lc) ==
    \A t \in 1..Len(lc) : l[t][1] = one => lc[t][2] = CSOne

MaxTerms == 3

\* The terms of the combinations: a variable and its coefficient; new(0)
\* comes with two coefficients, so a combination may name it twice.
LinCombTerms == {<<one, 1>>, <<new(0), 2>>, <<new(0), 3>>, <<public(0), 4>>}

\* LinComb: up to MaxTerms distinct terms in any order.
LinCombs ==
    {l \in UNION {[1..n -> LinCombTerms] : n \in 0..MaxTerms} :
        \A i, j \in 1..Len(l) : i # j => l[i] # l[j]}

\* The sum a backend combination stands for: the coefficient of every
\* handle, the terms of a handle added up.
RECURSIVE CoefficientOf(_, _, _)
CoefficientOf(lc, h, i) ==
    IF i > Len(lc) THEN 0
    ELSE ((IF lc[i][2] = h THEN lc[i][1] ELSE 0) + CoefficientOf(lc, h, i + 1))
             % FieldMod

SumOf(lc) == [h \in {lc[i][2] : i \in 1..Len(lc)} |-> CoefficientOf(lc, h, 1)]

\* The sum of coefficient * handle over a set of terms, the handles taken
\* from the map symbols: a function of the set, not of an order.
RECURSIVE CoefficientIn(_, _, _)
CoefficientIn(T, symbols, h) ==
    IF T = {} THEN 0
    ELSE LET t == CHOOSE x \in T : TRUE
         IN  ((IF symbols[t[1]] = h THEN t[2] ELSE 0)
                  + CoefficientIn(T \ {t}, symbols, h)) % FieldMod

SumOver(T, symbols) ==
    [h \in {symbols[t[1]] : t \in T} |-> CoefficientIn(T, symbols, h)]

\* C18: at any point of a synthesis, bellman_combination(l) that does not
\* fail returns one term per term of l, the i-th being the coefficient of
\* the i-th term of l times the handle of its variable, which is the sum of
\* coefficient * handle over the terms of l, and allocates the unmapped
\* variables of l and no other; when every variable of l is mapped already,
\* the call does not fail, changes neither the map nor the witness, and
\* the sum returned is that of the set of the terms of l under the map: the
\* same for every order of the terms.
C18_CombinationIsSumOfTerms ==
    (pc = "synthesize" /\ index = Len(program.arguments)) =>
        \A l \in LinCombs :
            LET r == bellman_combination(l, st)
            IN  /\ ~r.st.panic =>
                      /\ Len(r.lc) = Len(l)
                      /\ \A i \in 1..Len(l) :
                             r.lc[i] = <<l[i][2] % FieldMod, r.st.symbols[l[i][1]]>>
                      /\ SumOf(r.lc) = SumOver(Range(l), r.st.symbols)
                      /\ DOMAIN r.st.symbols = DOMAIN st.symbols \cup LCVars(l)
                      /\ \A k \in DOMAIN st.symbols : r.st.symbols[k] = st.symbols[k]
                      /\ Len(r.st.cs.allocs) - Len(st.cs.allocs)
                             = Cardinality(LCVars(l) \ DOMAIN st.symbols)
                /\ LCVars(l) \subseteq DOMAIN st.symbols =>
                      /\ ~r.st.panic
                      /\ r.st.symbols = st.symbols
                      /\ r.st.cs = st.cs
                      /\ r.st.witness = st.witness
                      /\ SumOf(r.lc) = SumOver(Range(l), st.symbols)

\* A proving synthesis is past its statement with new(0) mapped and
\* public(0) not: combinations of three mapped terms naming new(0) twice,
\* and combinations that fail at public(0) or allocate it, are at hand.
C18_Witness ==
    /\ pc = "synthesize"
    /\ index = Len(program.arguments)
    /\ stmt = 1
    /\ st.cs.mode = "proving"
    /\ {one, new(0)} \subseteq DOMAIN st.symbols
    /\ public(0) \notin DOMAIN st.symbols
    /\ \E l \in LinCombs :
          /\ Len(l) = 3
          /\ LCVars(l) = {one, new(0)}
          /\ Len(bellman_combination(l, st).lc) = 3
    /\ \E l \in LinCombs :
          /\ public(0) \in LCVars(l)
          /\ Len(l) = 3
          /\ ~bellman_combination(l, st).st.panic

\* The constraint structure of a constraint system: the allocations in
\* order (variable, category, namespace; not the value), the number of
\* slots of each category and the constraints over the handles.
Structure(cs) ==
    [allocs |-> [i \in 1..Len(cs.allocs) |->
                    [var |-> cs.allocs[i].var,
                     private |-> cs.allocs[i].private,
                     ns |-> cs.allocs[i].ns]],
     num_inputs |-> cs.num_inputs,
     num_aux |-> cs.num_aux,
     constraints |-> cs.constraints]

\* C19: a synthesis of prove that succeeded, whatever the witness of the
\* computation, made the allocations (same variables, categories and
\* order) and emitted the constraints (same handles) of the synthesis of
\* setup without a witness of the same program; so did the synthesis of
\* setup of a computation that holds a witness.
C19_StructureIndependentOfWitness ==
    /\ (call = "prove" /\ pc = "verify") =>
          /\ st = synthesize(program, "proving", witness)
          /\ ~st.panic
          /\ Structure(st.cs) = Structure(synthesize(program, "keygen", None).cs)
    /\ (call = "setup" /\ pc = "idle" /\ params # None) =>
          /\ st = synthesize(program, "keygen", witness)
          /\ ~st.panic
          /\ Structure(st.cs) = Structure(synthesize(program, "keygen", None).cs)

\* The synthesis of prove succeeded with a witness holding a 0 and a 1
\* besides ~one, for a program with a private and a public variable and a
\* constraint: it allocated in both categories.
C19_Witness ==
    /\ call = "prove"
    /\ pc = "verify"
    /\ witness # None
    /\ \E k \in DOMAIN witness[1] : witness[1][k] = 0
    /\ \E k \in DOMAIN witness[1] : k # one /\ witness[1][k] = 1
    /\ st.cs.num_aux > 0
    /\ st.cs.num_inputs > 1
    /\ Len(st.cs.constraints) > 0

\* The variables of a program no Constraint statement names and that are
\* no arguments: return wires left unconstrained, variables of directives.
Unconstrained(p) ==
    ProgVars(p) \ ({one} \cup Range(p.arguments) \cup ConstraintVars(p.statements))

\* C20: after a synthesis that succeeded, the allocations are those of the
\* arguments followed by those of the other variables of the Constraint
\* statements except ~one, each at its first occurrence in the order
\* statements, left, right, target; the map holds these and ~one; no
\* variable outside the arguments and the Constraint statements has a
\* handle; the public-input slots besides that of ~one are as many as the
\* public arguments and the distinct non-argument output variables of the
\* Constraint statements.
C20_AllocatedVariables ==
    Synthesized =>
        /\ AllocVars(st.cs.allocs) = AllocationOrder(program)
        /\ Range(AllocVars(st.cs.allocs))
              = Range(program.arguments)
                    \cup (ConstraintVars(program.statements) \ {one})
        /\ DOMAIN st.symbols = {one} \cup Range(AllocVars(st.cs.allocs))
        /\ \A k \in Unconstrained(program) :
              /\ k \notin DOMAIN st.symbols
              /\ k \notin Range(AllocVars(st.cs.allocs))
        /\ st.cs.num_inputs - 1
              = Cardinality({i \in 1..Len(program.arguments) : ~program.private[i]})
                  + Cardinality({k \in ConstraintVars(program.statements)
                                          \ Range(program.arguments) : is_output(k)})

\* A synthesis succeeded for a program with a public argument, a declared
\* return wire no constraint names, a directive, and a constraint whose
\* left factor and whose target are both variables first met there.
C20_Witness ==
    /\ Synthesized
    /\ \E i \in 1..Len(program.arguments) : ~program.private[i]
    /\ \E k \in Range(program.returns) : k \in Unconstrained(program)
    /\ \E i \in 1..Len(program.statements) : program.statements[i].kind = "Directive"
    /\ \E i \in 1..Len(program.statements) :
          LET s == program.statements[i]
              before == {one} \cup Range(program.arguments)
                            \cup ConstraintVars(SubSeq(program.statements, 1, i - 1))
          IN  /\ s.kind = "Constraint"
              /\ s.left[1][1] \notin before
              /\ s.lin[1][1] \notin before
              /\ is_output(s.lin[1][1])

====
